---------------------------- MODULE Spec2Model ----------------------------
(***************************************************************************)
(* The cluster_plug CPU hotplug driver                                     *)
(* (src/drivers/cpufreq/hisi/cluster_plug.c) as a state machine.           *)
(*                                                                         *)
(* Three execution contexts share the module's globals:                    *)
(*   - the work item cluster_plug_work_fn (the periodic tick), run by the  *)
(*     single-threaded workqueue, never concurrently with itself;          *)
(*   - the sysfs store callbacks (active_store, low_power_mode_store,      *)
(*     screen_off_power_mode_store), one at a time, each holding           *)
(*     cluster_plug_mutex from mutex_lock to mutex_unlock;                 *)
(*   - the LCD notifier callback, whose critical section runs under        *)
(*     cluster_plug_mutex.                                                 *)
(* Plain module parameters (thresholds, max_cores_screenoff) are written   *)
(* without any lock.  The tick reads the globals without the mutex; it     *)
(* takes the mutex only to set workqueue_suspended.                        *)
(*                                                                         *)
(* Workqueue semantics (kernel >= 3.7): queue_delayed_work and queue_work  *)
(* do nothing when the work is already pending; the pending bit is cleared *)
(* when the worker starts the function; flush_workqueue waits for the      *)
(* items queued or running at the time of the call, not for armed timers;  *)
(* cancel_delayed_work removes a pending item (timer or queued) and does   *)
(* not wait for a running one.                                             *)
(***************************************************************************)
EXTENDS Integers, FiniteSets, Sequences, TLC

\* ------------------------------------------------------------ constants
DEF_LOAD_THRESH_DOWN == 20
DEF_LOAD_THRESH_UP == 80
DEF_VOTE_THRESHOLD_UP == 2
DEF_VOTE_THRESHOLD_DOWN == 5
DEF_MAX_CORES_SCREENOFF == 1
N_BIG_CPUS == 4
N_LITTLE_CPUS == 4

\* ------------------------------------------------------------ bounds
\* asynchronous inputs of one behaviour: calls of the store callbacks that
\* change a value, LCD_EVENT_OFF_END / LCD_EVENT_ON_START events, writes to
\* the plain module parameters and failing cpu_up / cpu_down calls
MaxEnvEvents == 4
\* decision cycles (cluster_plug_perform) in one behaviour
MaxCycles == 6
\* largest value a write to vote_threshold_up / vote_threshold_down carries
MaxVoteThresholdWrite == 1

Cores == 0 .. (N_BIG_CPUS + N_LITTLE_CPUS - 1)
NoCpu == 0 - 1

\* aggregate-load samples: below, at, between, at and above the default
\* thresholds
LoadSamples == {10, 20, 50, 80, 90}
\* values written to load_threshold_down / load_threshold_up
LoadThresholdWrites == {DEF_LOAD_THRESH_DOWN, DEF_LOAD_THRESH_UP}
\* values written to vote_threshold_up / vote_threshold_down
VoteThresholdWrites == 0 .. MaxVoteThresholdWrite
\* values written to max_cores_screenoff (0 and 5 are outside 1..4)
ScreenoffCapWrites == {0, 2, 5}
\* the cores whose cpu_up / cpu_down call fails during one step
FailChoices == {{}} \cup {{c} : c \in Cores}

VARIABLES
    \* module globals (cluster_plug.c:60-89)
    active, workqueue_suspended, screen_on,
    big_cluster_enabled, little_cluster_enabled,
    low_power_mode, screen_off_power_mode, online_all,
    vote_up, vote_down,
    load_threshold_down, load_threshold_up,
    vote_threshold_down, vote_threshold_up, max_cores_screenoff,
    \* the kernel's cpu_online_mask and each cpu device's `offline` flag
    cpu_online_mask, dev_offline,
    \* the cpu devices whose device lock the worker holds
    dev_locked,
    \* the delayed work: "none", "timer" (delay running) or "queued"
    work_pending,
    \* the position of the worker inside cluster_plug_work_fn
    work_pc,
    \* cluster_plug_perform's local `load`
    load,
    \* the store callback in progress
    store_pc, store_param, store_value, flush_wait,
    \* the environment's use of its budgets
    env_events, cycles,
    \* the last decision cycle: what it decided, the cpu its scan picked and
    \* the length of the run of high-load cycles it belongs to
    last_action, last_cpu, up_run,
    \* the last store callback that returned cleared the other mode flag
    mode_cleared,
    \* the request to force all cores online that no tick has served yet:
    \* "none", or who set online_all ("resume": cluster_plug_hotplug_resume,
    \* "toggle": active_store), with "_run" appended once a tick that
    \* started after the request is in cluster_plug_work_fn
    force_req,
    \* the last switch of a decision cycle whose cpu_up / cpu_down failed,
    \* with no change of the topology since: the action that fired, the cpu
    \* its scan picked and the number of decision cycles run since
    failed_switch,
    \* the restart of the work by cluster_plug_hotplug_suspend that no tick
    \* has served yet: "none", "event" once the callback has cleared
    \* workqueue_suspended, "run" once a tick that started after it is in
    \* cluster_plug_work_fn; a later store or resume makes it "none"
    off_req,
    \* the per-cpu struct cp_cpu_info (prev_cpu_wall, prev_cpu_idle), the
    \* value get_delta_cpu_load_and_update returned for each cpu in the
    \* calculateLoad in progress, and the kernel's per-cpu wall and idle
    \* counters that get_cpu_idle_time returns
    cp_info, cpu_load, cpu_time,
    \* the load of the decision cycle in progress lay within the load
    \* thresholds when cluster_plug_perform compared it with them
    dead_band

vars == << active, workqueue_suspended, screen_on,
           big_cluster_enabled, little_cluster_enabled,
           low_power_mode, screen_off_power_mode, online_all,
           vote_up, vote_down,
           load_threshold_down, load_threshold_up,
           vote_threshold_down, vote_threshold_up, max_cores_screenoff,
           cpu_online_mask, dev_offline, dev_locked,
           work_pending, work_pc, load,
           store_pc, store_param, store_value, flush_wait,
           env_events, cycles,
           last_action, last_cpu, up_run, mode_cleared, dead_band,
           force_req, failed_switch, off_req, cp_info, cpu_load,
           cpu_time >>

flags == << active, workqueue_suspended, screen_on,
            big_cluster_enabled, little_cluster_enabled,
            low_power_mode, screen_off_power_mode, online_all >>
votes == << vote_up, vote_down >>
params == << load_threshold_down, load_threshold_up,
             vote_threshold_down, vote_threshold_up, max_cores_screenoff >>
hw == << cpu_online_mask, dev_offline, dev_locked >>
store == << store_pc, store_param, store_value, flush_wait >>
budget == << env_events, cycles >>
cycle == << load, last_action, last_cpu, mode_cleared, dead_band >>
sampling == << cp_info, cpu_load, cpu_time >>

\* no switch has failed
NoFail == [action |-> "None", cpu |-> NoCpu, age |-> 0]

\* ------------------------------------------------------------ topology
is_big_cpu(cpu) == cpu >= N_LITTLE_CPUS

is_little_cpu(cpu) == cpu < N_LITTLE_CPUS

\* ------------------------------------------------------------ hardware
\* A hardware state h is [on, off, fails, cpu]: the online mask, the set of
\* cpu devices whose `offline` flag is set, the number of failed cpu_up /
\* cpu_down calls so far, and the cpu the last single-core scan picked.
\* F is the set of cores whose cpu_up / cpu_down call fails.
cpu_up(h, cpu, F) ==
    IF cpu \in F
    THEN [h EXCEPT !.fails = @ + 1]
    ELSE [h EXCEPT !.on = @ \cup {cpu}]

cpu_down(h, cpu, F) ==
    IF cpu \in F
    THEN [h EXCEPT !.fails = @ + 1]
    ELSE [h EXCEPT !.on = @ \ {cpu}]

set_dev_offline(h, cpu, offline) ==
    [h EXCEPT !.off = IF offline THEN @ \cup {cpu} ELSE @ \ {cpu}]

device_lock(h, cpu) == [h EXCEPT !.locks = @ \cup {cpu}]

device_unlock(h, cpu) == [h EXCEPT !.locks = @ \ {cpu}]

\* variant: the function returns without device_unlock
switch_cpu_keeps_lock(h, cpu, offline, F) ==
    LET h0 == device_lock(h, cpu)
        h1 == IF offline
              THEN IF cpu \in h0.on THEN cpu_down(h0, cpu, F) ELSE h0
              ELSE IF cpu \notin h0.on THEN cpu_up(h0, cpu, F) ELSE h0
    IN  set_dev_offline(h1, cpu, offline)

switch_cpu(h, cpu, offline, F) ==
    LET h0 == device_lock(h, cpu)
        h1 == IF offline
              THEN IF cpu \in h0.on THEN cpu_down(h0, cpu, F) ELSE h0
              ELSE IF cpu \notin h0.on THEN cpu_up(h0, cpu, F) ELSE h0
    IN  device_unlock(set_dev_offline(h1, cpu, offline), cpu)

\* for (cpu_num = 7; cpu_num >= 0; cpu_num--)
RECURSIVE optimized_online_all_from(_, _, _)
optimized_online_all_from(h, cpu_num, F) ==
    IF cpu_num < 0 THEN h
    ELSE optimized_online_all_from(
             IF cpu_num \notin h.on
             THEN device_unlock(
                      set_dev_offline(
                          cpu_up(device_lock(h, cpu_num), cpu_num, F),
                          cpu_num, FALSE),
                      cpu_num)
             ELSE h,
             cpu_num - 1, F)

\* variant: a loop that starts at core 6
optimized_online_all_from_six(h, F) == optimized_online_all_from(h, 6, F)

optimized_online_all(h, F) == optimized_online_all_from(h, 7, F)

\* variant: the loop without the is_big_cpu test
RECURSIVE disable_big_cluster_from_every_cpu(_, _, _)
disable_big_cluster_from_every_cpu(h, cpu, F) ==
    IF cpu > 7 THEN h
    ELSE disable_big_cluster_from_every_cpu(
             IF cpu \in h.on THEN switch_cpu(h, cpu, TRUE, F) ELSE h,
             cpu + 1, F)

\* for_each_present_cpu(cpu), all eight cpus present
RECURSIVE disable_big_cluster_from(_, _, _)
disable_big_cluster_from(h, cpu, F) ==
    IF cpu > 7 THEN h
    ELSE disable_big_cluster_from(
             IF is_big_cpu(cpu) /\ cpu \in h.on
             THEN switch_cpu(h, cpu, TRUE, F)
             ELSE h,
             cpu + 1, F)

\* the early return on !big_cluster_enabled
disable_big_cluster(h, enabled, F) ==
    IF ~enabled THEN h ELSE disable_big_cluster_from(h, 0, F)

\* variant: required_cpus one less than max_cores_screenoff
required_little_cpus_one_less(scr_on, scr_off_mode, max_cores) ==
    IF scr_on = FALSE /\ scr_off_mode = FALSE
       /\ max_cores > 0 /\ max_cores <= 4
    THEN max_cores - 1
    ELSE 4

\* variant: required_cpus without the cap max_cores_screenoff
required_little_cpus_uncapped(scr_on, scr_off_mode, max_cores) == 4

\* required_cpus of enable_little_cluster
required_little_cpus(scr_on, scr_off_mode, max_cores) ==
    IF scr_on = FALSE /\ scr_off_mode = FALSE
       /\ max_cores > 0 /\ max_cores <= 4
    THEN max_cores
    ELSE 4

\* variant: the loop without the else branch that switches the little cores
\* above required_cpus offline
RECURSIVE enable_little_cluster_from_keeps_rest(_, _, _, _)
enable_little_cluster_from_keeps_rest(h, cpu, required_cpus, F) ==
    IF cpu > 7 THEN h
    ELSE IF is_little_cpu(cpu) /\ required_cpus > 0
    THEN enable_little_cluster_from_keeps_rest(
             IF cpu \notin h.on THEN switch_cpu(h, cpu, FALSE, F) ELSE h,
             cpu + 1, required_cpus - 1, F)
    ELSE enable_little_cluster_from_keeps_rest(h, cpu + 1, required_cpus, F)

RECURSIVE enable_little_cluster_from(_, _, _, _)
enable_little_cluster_from(h, cpu, required_cpus, F) ==
    IF cpu > 7 THEN h
    ELSE IF is_little_cpu(cpu)
    THEN IF required_cpus > 0
         THEN enable_little_cluster_from(
                  IF cpu \notin h.on THEN switch_cpu(h, cpu, FALSE, F) ELSE h,
                  cpu + 1, required_cpus - 1, F)
         ELSE enable_little_cluster_from(
                  IF cpu \in h.on THEN switch_cpu(h, cpu, TRUE, F) ELSE h,
                  cpu + 1, required_cpus, F)
    ELSE enable_little_cluster_from(h, cpu + 1, required_cpus, F)

enable_little_cluster(h, scr_on, scr_off_mode, max_cores, F) ==
    enable_little_cluster_from(
        h, 0, required_little_cpus(scr_on, scr_off_mode, max_cores), F)

\* the scan bounds of online_one_cpu / offline_one_cpu (LITTLE_BIG):
\* for (cpu_num = 7-1; cpu_num >= 0+1; cpu_num--)
scan_first == 7 - 1
scan_last == 0 + 1

RECURSIVE online_one_cpu_from(_, _, _)
online_one_cpu_from(h, cpu_num, F) ==
    IF cpu_num < scan_last THEN h
    ELSE IF cpu_num \notin h.on
    THEN [device_unlock(
              set_dev_offline(cpu_up(device_lock(h, cpu_num), cpu_num, F),
                              cpu_num, FALSE),
              cpu_num)
             EXCEPT !.cpu = cpu_num]
    ELSE online_one_cpu_from(h, cpu_num - 1, F)

\* variant: the scan picks the lowest offline core of 1..6
online_one_cpu_lowest(h, F) ==
    LET off == {c \in scan_last .. scan_first : c \notin h.on}
    IN  IF off = {} THEN h
        ELSE LET c == CHOOSE x \in off : \A y \in off : x <= y
             IN  [set_dev_offline(cpu_up(h, c, F), c, FALSE) EXCEPT !.cpu = c]

\* variant: no return after the switch, the scan goes on to a second core
online_one_cpu_no_return(h, F) ==
    online_one_cpu_from(online_one_cpu_from(h, scan_first, F), scan_first, F)

\* variant: a scan that starts at core 7
online_one_cpu_all_cores(h, F) == online_one_cpu_from(h, 7, F)

online_one_cpu(h, F) == online_one_cpu_from(h, scan_first, F)

RECURSIVE offline_one_cpu_from(_, _, _)
offline_one_cpu_from(h, cpu_num, F) ==
    IF cpu_num < scan_last THEN h
    ELSE IF cpu_num \in h.on
    THEN [device_unlock(
              set_dev_offline(cpu_down(device_lock(h, cpu_num), cpu_num, F),
                              cpu_num, TRUE),
              cpu_num)
             EXCEPT !.cpu = cpu_num]
    ELSE offline_one_cpu_from(h, cpu_num - 1, F)

\* variant: the scan picks the lowest online core of 1..6
offline_one_cpu_lowest(h, F) ==
    LET on == {c \in scan_last .. scan_first : c \in h.on}
    IN  IF on = {} THEN h
        ELSE LET c == CHOOSE x \in on : \A y \in on : x <= y
             IN  [set_dev_offline(cpu_down(h, c, F), c, TRUE) EXCEPT !.cpu = c]

\* variant: a scan that starts at core 7
offline_one_cpu_all_cores(h, F) == offline_one_cpu_from(h, 7, F)

offline_one_cpu(h, F) == offline_one_cpu_from(h, scan_first, F)

\* ------------------------------------------------------------ sampling
\* An unsigned int is a record [hi, lo] of two 16-bit halves, its value
\* hi * 2^16 + lo; a u64 counter is a record [top, hi, lo], top its upper
\* 32 bits.
Half == 65536
u32_zero == [hi |-> 0, lo |-> 0]
u64_zero == [top |-> 0, hi |-> 0, lo |-> 0]

RECURSIVE Pow2(_)
Pow2(n) == IF n = 0 THEN 1 ELSE 2 * Pow2(n - 1)

\* a < b
u32_lt(a, b) == a.hi < b.hi \/ (a.hi = b.hi /\ a.lo < b.lo)

\* a - b modulo 2^32
u32_sub(a, b) ==
    LET borrow == IF a.lo < b.lo THEN 1 ELSE 0
    IN  [hi |-> (a.hi - b.hi - borrow + Half) % Half,
         lo |-> (a.lo - b.lo + Half) % Half]

\* 100 * a modulo 2^32
u32_mul100(a) ==
    LET l == 100 * a.lo
    IN  [hi |-> (100 * a.hi + l \div Half) % Half, lo |-> l % Half]

\* bit i of p
u32_bit(p, i) ==
    IF i >= 16 THEN (p.hi \div Pow2(i - 16)) % 2 ELSE (p.lo \div Pow2(i)) % 2

\* the values of the long division: unsigned ints, and remainders of up to
\* 33 bits
DivValues == [hi : Nat, lo : Nat]

\* p / w by binary long division from bit i down, r the remainder and q the
\* quotient so far
u32_div_from[p \in DivValues, w \in DivValues, i \in Int,
             r \in DivValues, q \in DivValues] ==
    IF i < 0 THEN q
    ELSE LET l == 2 * r.lo + u32_bit(p, i)
             r1 == [hi |-> 2 * r.hi + l \div Half, lo |-> l % Half]
             fits == ~u32_lt(r1, w)
         IN  u32_div_from[
                 p, w, i - 1,
                 IF fits THEN u32_sub(r1, w) ELSE r1,
                 IF ~fits THEN q
                 ELSE IF i >= 16 THEN [q EXCEPT !.hi = @ + Pow2(i - 16)]
                 ELSE [q EXCEPT !.lo = @ + Pow2(i)]]

\* p / w, w # 0
u32_div(p, w) == u32_div_from[p, w, 31, u32_zero, u32_zero]

\* the value of an unsigned int below 2^31
u32_value(a) == a.hi * Half + a.lo

\* (unsigned int) (cur - prev) of two u64 counters: the low 32 bits of the
\* difference, which the upper 32 bits of the counters do not change
truncated_delta(cur, prev) ==
    u32_sub([hi |-> cur.hi, lo |-> cur.lo], [hi |-> prev.hi, lo |-> prev.lo])

\* variant: the test without wall_time < idle_time
get_delta_cpu_load_and_update_no_idle_test(info, cur_wall_time, cur_idle_time) ==
    LET wall_time == truncated_delta(cur_wall_time, info.prev_cpu_wall)
        idle_time == truncated_delta(cur_idle_time, info.prev_cpu_idle)
    IN  [info |-> [prev_cpu_wall |-> cur_wall_time,
                   prev_cpu_idle |-> cur_idle_time],
         load |-> IF wall_time = u32_zero
                  THEN 100
                  ELSE u32_value(
                           u32_div(u32_mul100(u32_sub(wall_time, idle_time)),
                                   wall_time))]

\* get_delta_cpu_load_and_update on the cpu whose cp_cpu_info is info, with
\* the counters get_cpu_idle_time returns: the new cp_cpu_info and the
\* value returned
get_delta_cpu_load_and_update(info, cur_wall_time, cur_idle_time) ==
    LET wall_time == truncated_delta(cur_wall_time, info.prev_cpu_wall)
        idle_time == truncated_delta(cur_idle_time, info.prev_cpu_idle)
    IN  [info |-> [prev_cpu_wall |-> cur_wall_time,
                   prev_cpu_idle |-> cur_idle_time],
         load |-> IF wall_time = u32_zero \/ u32_lt(wall_time, idle_time)
                  THEN 100
                  ELSE u32_value(
                           u32_div(u32_mul100(u32_sub(wall_time, idle_time)),
                                   wall_time))]

\* the calls of get_delta_cpu_load_and_update in the loop of calculateLoad,
\* one for each possible cpu; counters[c] holds the counters of cpu c
sample_every_cpu(cp, counters) ==
    [c \in Cores |-> get_delta_cpu_load_and_update(
                         cp[c], counters[c].wall, counters[c].idle)]

\* the static per-cpu cp_info before the first sample, and cpu_load outside
\* calculateLoad
cp_info_zero ==
    [c \in Cores |-> [prev_cpu_wall |-> u64_zero, prev_cpu_idle |-> u64_zero]]
no_cpu_load == [c \in Cores |-> 0]
cpu_time_zero == [c \in Cores |-> [wall |-> u64_zero, idle |-> u64_zero]]

\* the counters of a sample whose values the specification does not follow
time_not_followed == [top |-> 0 - 1, hi |-> 0, lo |-> 0]

\* ------------------------------------------------------------ load
\* variant: the sum over every possible cpu, online or not
RECURSIVE sum_online_load_every_cpu(_, _, _)
sum_online_load_every_cpu(cpu_load_of, on, cpu) ==
    IF cpu > 7 THEN 0
    ELSE cpu_load_of[cpu] + sum_online_load_every_cpu(cpu_load_of, on, cpu + 1)

\* calculateLoad over the per-cpu loads cpu_load_of (a function on Cores) and
\* the online mask; the division by zero online cpus is reported as -1
RECURSIVE sum_online_load(_, _, _)
sum_online_load(cpu_load_of, on, cpu) ==
    IF cpu > 7 THEN 0
    ELSE (IF cpu \in on THEN cpu_load_of[cpu] ELSE 0)
         + sum_online_load(cpu_load_of, on, cpu + 1)

calculateLoad(cpu_load_of, on) ==
    LET cpus == Cardinality(on)
    IN  IF cpus = 0 THEN 0 - 1
        ELSE sum_online_load(cpu_load_of, on, 0) \div cpus

\* variant: the load comparisons with >= and <= in place of > and <
vote_update_inclusive(v, l, thr_up, thr_down) ==
    IF l >= thr_up
    THEN [up |-> v.up + 1, down |-> IF v.down > 0 THEN v.down - 1 ELSE v.down]
    ELSE IF l <= thr_down
    THEN [up |-> IF v.up > 0 THEN v.up - 1 ELSE v.up, down |-> v.down + 1]
    ELSE v

\* ------------------------------------------------------------ voting
\* lines 322-328 of cluster_plug_perform: v is [up, down]
vote_update(v, l, thr_up, thr_down) ==
    IF l > thr_up
    THEN [up |-> v.up + 1, down |-> IF v.down > 0 THEN v.down - 1 ELSE v.down]
    ELSE IF l < thr_down
    THEN [up |-> IF v.up > 0 THEN v.up - 1 ELSE v.up, down |-> v.down + 1]
    ELSE v

\* variant: the threshold comparisons with >= in place of >
vote_decision_at_threshold(v, vthr_up, vthr_down) ==
    IF v.up >= vthr_up THEN "AddCore"
    ELSE IF v.down >= vthr_down THEN "RemoveCore"
    ELSE "None"

\* lines 333-343 of cluster_plug_perform: which branch is taken
vote_decision(v, vthr_up, vthr_down) ==
    IF v.up > vthr_up THEN "AddCore"
    ELSE IF v.down > vthr_down THEN "RemoveCore"
    ELSE "None"

\* variant: a branch that leaves the counters as they are
vote_reset_never(v, decision) == v

\* variant: a branch that resets vote_up alone
vote_reset_up_only(v, decision) ==
    IF decision = "None" THEN v ELSE [up |-> 0, down |-> v.down]

\* the counters after the branch
vote_reset(v, decision) ==
    IF decision = "None" THEN v ELSE [up |-> 0, down |-> 0]

\* ------------------------------------------------------------ work item
\* variant: the call queues nothing
queue_clusterplug_work_dropped(pending) == pending

\* queue_delayed_work(wq, &cluster_plug_work, delay > 0)
queue_clusterplug_work(pending) ==
    IF pending = "none" THEN "timer" ELSE pending

\* queue_work(wq, &cluster_plug_work.work)
queue_work(pending) ==
    IF pending = "none" THEN "queued" ELSE pending

\* cancel_delayed_work(&cluster_plug_work)
cancel_delayed_work(pending) == "none"

\* the mutex is held by a store callback from mutex_lock to mutex_unlock;
\* every other critical section is one step
mutex_free == store_pc = "idle"

Init ==
    /\ active = FALSE
    /\ workqueue_suspended = TRUE
    /\ screen_on = TRUE
    /\ big_cluster_enabled = TRUE
    /\ little_cluster_enabled = TRUE
    /\ low_power_mode = FALSE
    /\ screen_off_power_mode = FALSE
    /\ online_all = FALSE
    /\ vote_up = 0
    /\ vote_down = 0
    /\ load_threshold_down = DEF_LOAD_THRESH_DOWN
    /\ load_threshold_up = DEF_LOAD_THRESH_UP
    /\ vote_threshold_down = DEF_VOTE_THRESHOLD_DOWN
    /\ vote_threshold_up = DEF_VOTE_THRESHOLD_UP
    /\ max_cores_screenoff = DEF_MAX_CORES_SCREENOFF
    /\ cpu_online_mask = Cores
    /\ dev_offline = {}
    /\ dev_locked = {}
    /\ work_pending = "none"
    /\ work_pc = "idle"
    /\ load = 0
    /\ store_pc = "idle"
    /\ store_param = "active"
    /\ store_value = FALSE
    /\ flush_wait = 0
    /\ env_events = 0
    /\ last_action = "None"
    /\ last_cpu = NoCpu
    /\ up_run = 0
    /\ mode_cleared = FALSE
    /\ dead_band = FALSE
    /\ force_req = "none"
    /\ failed_switch = NoFail
    /\ off_req = "none"
    /\ cp_info = cp_info_zero
    /\ cpu_load = no_cpu_load
    /\ cpu_time = cpu_time_zero
    /\ cycles = 0


\* ------------------------------------------------------------ helpers
hw_now == [on |-> cpu_online_mask, off |-> dev_offline,
           locks |-> dev_locked, fails |-> env_events, cpu |-> NoCpu]

\* the step leaves the hardware as h, within the budget of failing calls
hw_becomes(h) ==
    /\ h.fails <= MaxEnvEvents
    /\ cpu_online_mask' = h.on
    /\ dev_offline' = h.off
    /\ dev_locked' = h.locks
    /\ env_events' = h.fails

\* the work function returns: one item flush_workqueue waits for is done
work_returns ==
    /\ work_pc' = "idle"
    /\ flush_wait' = IF flush_wait > 0 THEN flush_wait - 1 ELSE 0

\* ------------------------------------------------------------ the timer
\* the delay of the delayed work expires: the work is put on the queue
TimerFire ==
    /\ work_pending = "timer"
    /\ work_pending' = "queued"
    /\ UNCHANGED << sampling, off_req, failed_switch, force_req, flags,
                    votes, params, hw, work_pc, store, cycle, budget,
                    up_run >>

\* ------------------------------------------------------------ the tick
\* the worker takes the work off the queue and enters cluster_plug_work_fn
TickStart ==
    /\ work_pending = "queued"
    /\ work_pc = "idle"
    /\ work_pending' = "none"
    /\ work_pc' = "s348"
    /\ force_req' = IF force_req \in {"resume", "toggle"}
                    THEN IF force_req = "resume" THEN "resume_run"
                         ELSE "toggle_run"
                    ELSE force_req
    /\ off_req' = IF off_req = "event" THEN "run" ELSE off_req
    /\ UNCHANGED << sampling, failed_switch, flags, votes, params, hw, store,
                    cycle, budget, up_run >>

\* lines 348-354: if (online_all) { optimized_online_all(); ... }
TickOnlineAll ==
    /\ work_pc = "s348"
    /\ work_pc' = "s356"
    /\ IF online_all
       THEN /\ \E F \in FailChoices : hw_becomes(optimized_online_all(hw_now, F))
            /\ big_cluster_enabled' = TRUE
            /\ little_cluster_enabled' = TRUE
       ELSE UNCHANGED << hw, env_events, big_cluster_enabled,
                         little_cluster_enabled >>
    /\ force_req' = IF force_req \in {"resume_run", "toggle_run"}
                    THEN "none" ELSE force_req
    /\ failed_switch' = IF online_all THEN NoFail ELSE failed_switch
    /\ UNCHANGED << sampling, off_req, active, workqueue_suspended, screen_on,
                    low_power_mode, screen_off_power_mode, online_all, votes,
                    params, work_pending, store, cycle, cycles, up_run >>

\* variant: the condition without screen_off_power_mode
work_to_do_screen_only(scr_on, scr_off_mode, low_power) ==
    scr_on /\ low_power = FALSE

\* variant: the condition without low_power_mode
work_to_do_any_power(scr_on, scr_off_mode, low_power) ==
    scr_on \/ scr_off_mode = TRUE

\* lines 359-362: the condition under which the tick runs a decision cycle
work_to_do(scr_on, scr_off_mode, low_power) ==
    (scr_on \/ scr_off_mode = TRUE) /\ low_power = FALSE

\* variant: the work is queued again whether or not the controller is active
TickDispatch_always_requeues ==
    /\ work_pc = "s356"
    /\ work_pc' = IF online_all \/ ~active THEN "s379"
                  ELSE IF work_to_do(screen_on, screen_off_power_mode,
                                     low_power_mode)
                  THEN "vote" ELSE "susp"
    /\ off_req' = IF off_req = "run" THEN "none" ELSE off_req
    /\ UNCHANGED << sampling, failed_switch, force_req, flags, votes, params,
                    hw, work_pending, store, cycle, budget, up_run >>

\* lines 356-364: if (active) { if (!online_all) { if (work to do) ...
TickDispatch ==
    /\ work_pc = "s356"
    /\ work_pc' = IF ~active THEN "s382"
                  ELSE IF online_all THEN "s379"
                  ELSE IF work_to_do(screen_on, screen_off_power_mode,
                                     low_power_mode)
                  THEN "vote" ELSE "susp"
    /\ off_req' = IF off_req = "run" THEN "none" ELSE off_req
    /\ UNCHANGED << sampling, failed_switch, force_req, flags, votes, params,
                    hw, work_pending, store, cycle, budget, up_run >>

\* lines 320-328: calculateLoad() and the vote update; every cpu reports
\* the load l, and the counters behind it are followed in SpecLoad only
TickVote ==
    /\ work_pc = "vote"
    /\ work_pc' = "act"
    /\ cycles < MaxCycles
    /\ cycles' = cycles + 1
    /\ \E l \in LoadSamples :
         LET L == calculateLoad([c \in Cores |-> l], cpu_online_mask)
             v == vote_update([up |-> vote_up, down |-> vote_down], L,
                              load_threshold_up, load_threshold_down)
         IN  /\ load' = L
             /\ cpu_load' = [c \in Cores |-> l]
             /\ vote_up' = v.up
             /\ vote_down' = v.down
             /\ dead_band' = (L >= load_threshold_down
                              /\ L <= load_threshold_up)
             /\ up_run' = IF L > load_threshold_up
                          THEN IF vote_up = 0 /\ vote_down = 0 THEN 1
                               ELSE IF up_run > 0 THEN up_run + 1 ELSE 0
                          ELSE 0
    /\ cp_info' = [c \in Cores |-> [prev_cpu_wall |-> time_not_followed,
                                     prev_cpu_idle |-> time_not_followed]]
    /\ UNCHANGED << cpu_time, off_req, failed_switch, force_req, flags,
                    params, hw, work_pending, store, last_action, last_cpu,
                    mode_cleared, env_events >>

\* lines 333-343: the threshold check, online_one_cpu / offline_one_cpu and
\* the reset of the counters
TickAct ==
    /\ work_pc = "act"
    /\ work_pc' = "s379"
    /\ LET v == [up |-> vote_up, down |-> vote_down]
           d == vote_decision(v, vote_threshold_up, vote_threshold_down)
           w == vote_reset(v, d)
       IN  /\ \E F \in FailChoices :
                LET h == IF d = "AddCore" THEN online_one_cpu(hw_now, F)
                         ELSE IF d = "RemoveCore" THEN offline_one_cpu(hw_now, F)
                         ELSE hw_now
                IN  /\ hw_becomes(h)
                    /\ last_cpu' = h.cpu
                    /\ failed_switch' =
                         IF d # "None"
                         THEN IF h.fails > env_events
                              THEN [action |-> d, cpu |-> h.cpu, age |-> 0]
                              ELSE NoFail
                         ELSE IF failed_switch.action # "None"
                         THEN [failed_switch EXCEPT !.age = @ + 1]
                         ELSE failed_switch
           /\ vote_up' = w.up
           /\ vote_down' = w.down
           /\ last_action' = d
    /\ load' = 0
    /\ cpu_load' = no_cpu_load
    /\ dead_band' = FALSE
    /\ UNCHANGED << cp_info, cpu_time, off_req, force_req, flags, params,
                    work_pending, store, cycles, up_run, mode_cleared >>

\* lines 366-367: enable_little_cluster(); disable_big_cluster();
TickSuspendAction ==
    /\ work_pc = "susp"
    /\ work_pc' = "lock"
    /\ \E F \in FailChoices :
         hw_becomes(disable_big_cluster(
             enable_little_cluster(hw_now, screen_on, screen_off_power_mode,
                                   max_cores_screenoff, F),
             big_cluster_enabled, F))
    /\ little_cluster_enabled' = TRUE
    /\ big_cluster_enabled' = FALSE
    /\ failed_switch' = NoFail
    /\ UNCHANGED << sampling, off_req, force_req, active, workqueue_suspended,
                    screen_on, low_power_mode, screen_off_power_mode,
                    online_all, votes, params, work_pending, store, cycle,
                    cycles, up_run >>

\* lines 370-374: mutex_lock; workqueue_suspended = true; mutex_unlock; return
TickSetSuspended ==
    /\ work_pc = "lock"
    /\ mutex_free
    /\ workqueue_suspended' = TRUE
    /\ work_returns
    /\ UNCHANGED << sampling, off_req, failed_switch, force_req, active,
                    screen_on, big_cluster_enabled, little_cluster_enabled,
                    low_power_mode, screen_off_power_mode, online_all, votes,
                    params, hw, work_pending, store_pc, store_param,
                    store_value, cycle, budget, up_run >>

\* line 379: queue_clusterplug_work(sampling_time)
TickRequeue ==
    /\ work_pc = "s379"
    /\ work_pc' = "s382"
    /\ work_pending' = queue_clusterplug_work(work_pending)
    /\ last_action' = "None"
    /\ last_cpu' = NoCpu
    /\ up_run' = IF last_action = "None" THEN up_run ELSE 0
    /\ UNCHANGED << sampling, off_req, failed_switch, force_req, flags,
                    votes, params, hw, store, load, budget, mode_cleared,
                    dead_band >>

\* line 382: online_all = false; and the function returns
TickClearOnlineAll ==
    /\ work_pc = "s382"
    /\ online_all' = FALSE
    /\ work_returns
    /\ UNCHANGED << sampling, off_req, failed_switch, force_req, active,
                    workqueue_suspended, screen_on, big_cluster_enabled,
                    little_cluster_enabled, low_power_mode,
                    screen_off_power_mode, votes, params, hw, work_pending,
                    store_pc, store_param, store_value, cycle, budget,
                    up_run >>

Tick ==
    \/ TickStart
    \/ TickOnlineAll
    \/ TickDispatch
    \/ TickVote
    \/ TickAct
    \/ TickSuspendAction
    \/ TickSetSuspended
    \/ TickRequeue
    \/ TickClearOnlineAll

\* ------------------------------------------------------------ the stores
\* The value a store callback compares its argument with (lines 483, 525, 567)
store_current(p) ==
    IF p = "active" THEN active
    ELSE IF p = "low_power_mode" THEN low_power_mode
    ELSE screen_off_power_mode

StoreParams == {"active", "low_power_mode", "screen_off_power_mode"}

\* variant: low_power_mode_store without the reset of screen_off_power_mode
low_power_mode_assign_keeps_other(value, m) ==
    [lpm |-> value, sopm |-> m.sopm]

\* lines 533-536: the two mode flags [lpm, sopm] after low_power_mode_store
low_power_mode_assign(value, m) ==
    [lpm |-> value, sopm |-> IF value THEN FALSE ELSE m.sopm]

\* lines 575-578: the two mode flags after screen_off_power_mode_store
screen_off_power_mode_assign(value, m) ==
    [lpm |-> IF value THEN FALSE ELSE m.lpm, sopm |-> value]

\* the callback finds the value changed, takes the mutex and calls
\* flush_workqueue, which waits for the work that is running or queued now
StoreBegin(p, value) ==
    /\ store_pc = "idle"
    /\ env_events < MaxEnvEvents
    /\ value # store_current(p)
    /\ store_pc' = "flush"
    /\ store_param' = p
    /\ store_value' = value
    /\ flush_wait' = (IF work_pc # "idle" THEN 1 ELSE 0)
                     + (IF work_pending = "queued" THEN 1 ELSE 0)
    /\ env_events' = env_events + 1
    /\ UNCHANGED << sampling, off_req, failed_switch, force_req, flags,
                    votes, params, hw, work_pending, work_pc, cycle, cycles,
                    up_run >>

\* flush_workqueue returns
StoreFlushDone ==
    /\ store_pc = "flush"
    /\ flush_wait = 0
    /\ store_pc' = "cancel"
    /\ UNCHANGED << sampling, off_req, failed_switch, force_req, flags,
                    votes, params, hw, work_pending, work_pc, cycle,
                    store_param, store_value, flush_wait, budget, up_run >>

\* cancel_delayed_work, the assignments, workqueue_suspended = false,
\* queue_clusterplug_work(1) and mutex_unlock
StoreCommit ==
    /\ store_pc = "cancel"
    /\ store_pc' = "idle"
    /\ store_param' = "active"
    /\ store_value' = FALSE
    /\ LET m == [lpm |-> low_power_mode, sopm |-> screen_off_power_mode]
           n == IF store_param = "low_power_mode"
                THEN low_power_mode_assign(store_value, m)
                ELSE IF store_param = "screen_off_power_mode"
                THEN screen_off_power_mode_assign(store_value, m)
                ELSE m
       IN  /\ low_power_mode' = n.lpm
           /\ screen_off_power_mode' = n.sopm
           /\ mode_cleared' = ((m.lpm /\ ~n.lpm /\ n.sopm)
                                  \/ (m.sopm /\ ~n.sopm /\ n.lpm))
    /\ active' = IF store_param = "active" THEN store_value ELSE active
    /\ online_all' = IF store_param = "active" THEN TRUE ELSE online_all
    /\ workqueue_suspended' = FALSE
    /\ work_pending' = queue_clusterplug_work(cancel_delayed_work(work_pending))
    /\ force_req' = IF store_param = "active" THEN "toggle" ELSE force_req
    /\ off_req' = "none"
    /\ UNCHANGED << sampling, failed_switch, screen_on, big_cluster_enabled,
                    little_cluster_enabled, votes, params, hw, work_pc, load,
                    last_action, last_cpu, dead_band, flush_wait, budget,
                    up_run >>

Store ==
    \/ \E p \in StoreParams, value \in BOOLEAN : StoreBegin(p, value)
    \/ StoreFlushDone
    \/ StoreCommit

\* ------------------------------------------------------------ the display
\* LCD_EVENT_OFF_END: cluster_plug_hotplug_suspend under the mutex
LcdOffEnd ==
    /\ active
    /\ mutex_free
    /\ env_events < MaxEnvEvents
    /\ env_events' = env_events + 1
    /\ screen_on' = FALSE
    /\ IF workqueue_suspended
       THEN /\ workqueue_suspended' = FALSE
            /\ work_pending' = queue_clusterplug_work(work_pending)
       ELSE UNCHANGED << workqueue_suspended, work_pending >>
    /\ off_req' = IF workqueue_suspended THEN "event" ELSE off_req
    /\ UNCHANGED << sampling, failed_switch, force_req, active,
                    big_cluster_enabled, little_cluster_enabled,
                    low_power_mode, screen_off_power_mode, online_all, votes,
                    params, hw, work_pc, store, cycle, cycles, up_run >>

\* LCD_EVENT_ON_START: cluster_plug_hotplug_resume under the mutex
LcdOnStart ==
    /\ active
    /\ mutex_free
    /\ env_events < MaxEnvEvents
    /\ env_events' = env_events + 1
    /\ screen_on' = TRUE
    /\ IF workqueue_suspended
       THEN /\ online_all' = TRUE
            /\ vote_up' = 0
            /\ vote_down' = 0
            /\ up_run' = 0
            /\ workqueue_suspended' = FALSE
            /\ work_pending' = queue_work(work_pending)
       ELSE UNCHANGED << online_all, votes, up_run, workqueue_suspended,
                         work_pending >>
    /\ force_req' = IF workqueue_suspended THEN "resume" ELSE force_req
    /\ off_req' = "none"
    /\ UNCHANGED << sampling, failed_switch, active, big_cluster_enabled,
                    little_cluster_enabled, low_power_mode,
                    screen_off_power_mode, params, hw, work_pc, store, cycle,
                    cycles >>

\* LCD_EVENT_OFF_START and LCD_EVENT_ON_END, and every event while the
\* controller is not active: the callback returns NOTIFY_OK
LcdIgnored ==
    /\ UNCHANGED vars

\* the events the LCD driver notifies
LcdEvents == {"LCD_EVENT_OFF_START", "LCD_EVENT_OFF_END",
              "LCD_EVENT_ON_START", "LCD_EVENT_ON_END"}

\* variant: screen_on is written before active is tested
lcd_notifier_callback_screen_first(event) ==
    IF ~active
    THEN /\ screen_on' = IF event = "LCD_EVENT_OFF_END" THEN FALSE
                         ELSE IF event = "LCD_EVENT_ON_START" THEN TRUE
                         ELSE screen_on
         /\ UNCHANGED << sampling, off_req, failed_switch, force_req, active,
                         workqueue_suspended, big_cluster_enabled,
                         little_cluster_enabled, low_power_mode,
                         screen_off_power_mode, online_all, votes, params,
                         hw, work_pending, work_pc, store, cycle, budget,
                         up_run >>
    ELSE IF event = "LCD_EVENT_OFF_END" THEN LcdOffEnd
    ELSE IF event = "LCD_EVENT_ON_START" THEN LcdOnStart
    ELSE LcdIgnored

\* variant: LCD_EVENT_OFF_START handled like LCD_EVENT_OFF_END
lcd_notifier_callback_off_start(event) ==
    IF ~active THEN LcdIgnored
    ELSE IF event \in {"LCD_EVENT_OFF_START", "LCD_EVENT_OFF_END"}
    THEN LcdOffEnd
    ELSE IF event = "LCD_EVENT_ON_START" THEN LcdOnStart
    ELSE LcdIgnored

\* if (!active) return NOTIFY_OK; switch (event) { ... }
lcd_notifier_callback(event) ==
    IF ~active THEN LcdIgnored
    ELSE IF event = "LCD_EVENT_OFF_END" THEN LcdOffEnd
    ELSE IF event = "LCD_EVENT_ON_START" THEN LcdOnStart
    ELSE LcdIgnored

Lcd ==
    \/ lcd_notifier_callback("LCD_EVENT_OFF_START")
    \/ lcd_notifier_callback("LCD_EVENT_OFF_END")
    \/ lcd_notifier_callback("LCD_EVENT_ON_START")
    \/ lcd_notifier_callback("LCD_EVENT_ON_END")

\* ------------------------------------------------------------ parameters
\* module_param(..., uint, 0664): a write stores the value, no lock, no check
SetLoadThresholdDown(value) ==
    /\ env_events < MaxEnvEvents
    /\ value # load_threshold_down
    /\ load_threshold_down' = value
    /\ env_events' = env_events + 1
    /\ up_run' = 0
    /\ UNCHANGED << sampling, off_req, failed_switch, force_req, flags, votes,
                    load_threshold_up, vote_threshold_down,
                    vote_threshold_up, max_cores_screenoff, hw, work_pending,
                    work_pc, store, cycle, cycles >>

SetLoadThresholdUp(value) ==
    /\ env_events < MaxEnvEvents
    /\ value # load_threshold_up
    /\ load_threshold_up' = value
    /\ env_events' = env_events + 1
    /\ up_run' = 0
    /\ UNCHANGED << sampling, off_req, failed_switch, force_req, flags, votes,
                    load_threshold_down, vote_threshold_down,
                    vote_threshold_up, max_cores_screenoff, hw, work_pending,
                    work_pc, store, cycle, cycles >>

SetVoteThresholdDown(value) ==
    /\ env_events < MaxEnvEvents
    /\ value # vote_threshold_down
    /\ vote_threshold_down' = value
    /\ env_events' = env_events + 1
    /\ up_run' = 0
    /\ UNCHANGED << sampling, off_req, failed_switch, force_req, flags, votes,
                    load_threshold_down, load_threshold_up,
                    vote_threshold_up, max_cores_screenoff, hw, work_pending,
                    work_pc, store, cycle, cycles >>

SetVoteThresholdUp(value) ==
    /\ env_events < MaxEnvEvents
    /\ value # vote_threshold_up
    /\ vote_threshold_up' = value
    /\ env_events' = env_events + 1
    /\ up_run' = 0
    /\ UNCHANGED << sampling, off_req, failed_switch, force_req, flags, votes,
                    load_threshold_down, load_threshold_up,
                    vote_threshold_down, max_cores_screenoff, hw,
                    work_pending, work_pc, store, cycle, cycles >>

SetMaxCoresScreenoff(value) ==
    /\ env_events < MaxEnvEvents
    /\ value # max_cores_screenoff
    /\ max_cores_screenoff' = value
    /\ env_events' = env_events + 1
    /\ UNCHANGED << sampling, off_req, failed_switch, force_req, flags, votes,
                    load_threshold_down, load_threshold_up,
                    vote_threshold_down, vote_threshold_up, hw, work_pending,
                    work_pc, store, cycle, up_run, cycles >>

SetParam ==
    \/ \E value \in LoadThresholdWrites : SetLoadThresholdDown(value)
    \/ \E value \in LoadThresholdWrites : SetLoadThresholdUp(value)
    \/ \E value \in VoteThresholdWrites : SetVoteThresholdDown(value)
    \/ \E value \in VoteThresholdWrites : SetVoteThresholdUp(value)
    \/ \E value \in ScreenoffCapWrites : SetMaxCoresScreenoff(value)

\* ------------------------------------------------------------ the system
\* the controller with its parameters as set at build time
Next ==
    \/ TimerFire
    \/ Tick
    \/ Store
    \/ Lcd

Spec == Init /\ [][Next]_vars

\* the controller with writes to its plain module parameters
NextParam ==
    \/ Next
    \/ SetParam

SpecParam == Init /\ [][NextParam]_vars

\* ------------------------------------------------------------ the samples
\* calculateLoad on its own: the kernel's counters are drawn from
\* WallSamples and IdleSamples, the wall counter common to all cpus and the
\* idle counter common to the cpus of a cluster; the online mask is one of
\* LoadMasks.
WallSamples == {u64_zero,
                [top |-> 0, hi |-> 0, lo |-> 200],
                [top |-> 0, hi |-> 656, lo |-> 0],
                [top |-> 1, hi |-> 0, lo |-> 200]}
IdleSamples == {u64_zero,
                [top |-> 0, hi |-> 0, lo |-> 50],
                [top |-> 0, hi |-> 0, lo |-> 200]}
LoadMasks == {{0}, {0, 7}, {0, 1, 2, 3}, {0, 1, 7}, Cores}

cpu_times(wall, idle_big, idle_little) ==
    [c \in Cores |-> [wall |-> wall,
                      idle |-> IF is_big_cpu(c) THEN idle_big
                               ELSE idle_little]]

InitLoad ==
    /\ active = TRUE
    /\ workqueue_suspended = FALSE
    /\ screen_on = TRUE
    /\ big_cluster_enabled = TRUE
    /\ little_cluster_enabled = TRUE
    /\ low_power_mode = FALSE
    /\ screen_off_power_mode = FALSE
    /\ online_all = FALSE
    /\ vote_up = 0
    /\ vote_down = 0
    /\ load_threshold_down = DEF_LOAD_THRESH_DOWN
    /\ load_threshold_up = DEF_LOAD_THRESH_UP
    /\ vote_threshold_down = DEF_VOTE_THRESHOLD_DOWN
    /\ vote_threshold_up = DEF_VOTE_THRESHOLD_UP
    /\ max_cores_screenoff = DEF_MAX_CORES_SCREENOFF
    /\ cpu_online_mask \in LoadMasks
    /\ dev_offline = Cores \ cpu_online_mask
    /\ dev_locked = {}
    /\ work_pending = "none"
    /\ work_pc = "vote"
    /\ load = 0
    /\ store_pc = "idle"
    /\ store_param = "active"
    /\ store_value = FALSE
    /\ flush_wait = 0
    /\ env_events = 0
    /\ last_action = "None"
    /\ last_cpu = NoCpu
    /\ up_run = 0
    /\ mode_cleared = FALSE
    /\ dead_band = FALSE
    /\ force_req = "none"
    /\ failed_switch = NoFail
    /\ off_req = "none"
    /\ cp_info = cp_info_zero
    /\ cpu_load = no_cpu_load
    /\ cpu_time = cpu_time_zero
    /\ cycles = 0

\* the kernel's counters advance: get_cpu_idle_time will return the drawn
\* values
KernelTime ==
    /\ \E wall \in WallSamples, idle_big \in IdleSamples,
          idle_little \in IdleSamples :
           cpu_time' = cpu_times(wall, idle_big, idle_little)
    /\ UNCHANGED << cp_info, cpu_load, off_req, failed_switch, force_req,
                    flags, votes, params, hw, work_pending, work_pc, store,
                    cycle, budget, up_run >>

\* lines 286-317: one call of calculateLoad
calculateLoad_call ==
    /\ work_pc = "vote"
    /\ LET r == sample_every_cpu(cp_info, cpu_time)
           l == [c \in Cores |-> r[c].load]
       IN  /\ cp_info' = [c \in Cores |-> r[c].info]
           /\ cpu_load' = l
           /\ load' = calculateLoad(l, cpu_online_mask)
    /\ UNCHANGED << cpu_time, off_req, failed_switch, force_req, flags,
                    votes, params, hw, work_pending, work_pc, store,
                    last_action, last_cpu, mode_cleared, dead_band, budget,
                    up_run >>

NextLoad ==
    \/ KernelTime
    \/ calculateLoad_call

SpecLoad == InitLoad /\ [][NextLoad]_vars

\* ------------------------------------------------------------ properties
OnlineBig == {c \in cpu_online_mask : is_big_cpu(c)}
OnlineLittle == {c \in cpu_online_mask : is_little_cpu(c)}

\* C1: low_power_mode and screen_off_power_mode are never both true: the
\* store that sets one of them clears the other.
C1_ModesExclusive ==
    ~(low_power_mode /\ screen_off_power_mode)

\* a store has returned that set one mode flag and cleared the other
C1_Witness ==
    /\ store_pc = "idle"
    /\ mode_cleared
    /\ low_power_mode
    /\ ~screen_off_power_mode

\* C2: every store callback returns: it is never left waiting in
\* flush_workqueue, with the mutex held, for a tick that waits for the same
\* mutex in its suspension branch.
C2_StoreReturns ==
    ~(store_pc = "flush" /\ flush_wait > 0 /\ work_pc = "lock")

\* C3: once active_store has written 0 and returned, no decision cycle and
\* no suspension action runs until the controller is enabled again.
C3_NoWorkAfterDisable ==
    (~active /\ store_pc = "idle") => work_pc \notin {"vote", "act", "susp"}

\* C4: no critical section of the LCD notifier or of a store callback runs
\* between two steps of one tick.
C4_TickSerialized ==
    [][work_pc # "idle" => ~(LcdOffEnd \/ LcdOnStart \/ StoreCommit)]_vars

\* the two steps of a decision cycle
VoteStep == work_pc = "vote" /\ work_pc' = "act"
ActStep == work_pc = "act" /\ work_pc' = "s379"

\* C5 as stated: a decision cycle whose load lies in the dead band leaves
\* both vote counters as they were, in its vote step and in its threshold
\* check.
C5_DeadBandKeepsVotes ==
    [][((VoteStep /\ dead_band') \/ (ActStep /\ dead_band))
          => (vote_up' = vote_up /\ vote_down' = vote_down)]_vars

\* C5: a decision cycle whose load lies in the dead band leaves both vote
\* counters as they were, provided neither counter exceeds its vote
\* threshold when the threshold check runs.
C5_DeadBandKeepsVotesBelowThreshold ==
    [][((VoteStep /\ dead_band')
          \/ (ActStep /\ dead_band
                 /\ vote_up <= vote_threshold_up
                 /\ vote_down <= vote_threshold_down))
          => (vote_up' = vote_up /\ vote_down' = vote_down)]_vars

\* a dead-band cycle holding a positive count reached its threshold check
C5_Witness ==
    /\ work_pc = "act"
    /\ dead_band
    /\ vote_up > 0
    /\ vote_up <= vote_threshold_up
    /\ vote_down <= vote_threshold_down

\* C6: the vote counters are never negative, and a cycle that fired AddCore
\* or RemoveCore ends with both counters 0, whatever the scan found and
\* whatever the hardware did.
C6_VotesNonNegativeAndReset ==
    /\ vote_up >= 0
    /\ vote_down >= 0
    /\ (work_pc = "s379" /\ last_action # "None")
          => (vote_up = 0 /\ vote_down = 0)

\* a cycle fired and its scan found no core, or the core it picked did not
\* change state
C6_Witness ==
    /\ work_pc = "s379"
    /\ vote_up = 0
    /\ vote_down = 0
    /\ \/ last_action = "AddCore" /\ last_cpu = NoCpu
       \/ last_action = "AddCore" /\ last_cpu \in Cores
             /\ last_cpu \notin cpu_online_mask

\* C7: in a run of high-load cycles that starts from counters (0,0),
\* AddCore fires on cycle number vote_threshold_up + 1 and on none before,
\* and the counters are (0,0) after that cycle.
C7_AddCoreOnCycleThresholdPlusOne ==
    (work_pc = "s379" /\ up_run > 0) =>
        /\ up_run <= vote_threshold_up + 1
        /\ last_action = "AddCore" <=> up_run = vote_threshold_up + 1
        /\ up_run = vote_threshold_up + 1 => (vote_up = 0 /\ vote_down = 0)

\* the third high-load cycle under the default threshold 2 fired AddCore
C7_Witness ==
    /\ work_pc = "s379"
    /\ vote_threshold_up = DEF_VOTE_THRESHOLD_UP
    /\ up_run = DEF_VOTE_THRESHOLD_UP + 1
    /\ last_action = "AddCore"
    /\ vote_up = 0 /\ vote_down = 0

\* C8: the threshold check of a decision cycle takes no core other than
\* cores 1..6 offline.
C8_AnchorsStayOnline ==
    [][ActStep => (cpu_online_mask \ cpu_online_mask') \subseteq 1 .. 6]_vars

\* a RemoveCore cycle took one of cores 1..6 offline, cores 0 and 7 online
C8_Witness ==
    /\ work_pc = "s379"
    /\ last_action = "RemoveCore"
    /\ last_cpu \in 1 .. 6
    /\ last_cpu \notin cpu_online_mask
    /\ {0, 7} \subseteq cpu_online_mask

\* C9 as stated: while the controller is enabled, at least one big core
\* and at least one little core are online.
C9_BigAndLittleOnline ==
    active => (OnlineBig # {} /\ OnlineLittle # {})

\* C9: core 0, a little core, is online in every reachable state; the big
\* cluster has no such core, the suspension action takes all of it offline.
C9_LittleAnchorOnline ==
    0 \in cpu_online_mask

\* the suspension action has run: the controller is enabled, no big core is
\* online and core 0 is
C9_Witness ==
    /\ active
    /\ workqueue_suspended
    /\ ~big_cluster_enabled
    /\ OnlineBig = {}
    /\ 0 \in cpu_online_mask

\* C10: calculateLoad is only invoked with at least one core online, and
\* its quotient is defined.
C10_NoZeroDivisor ==
    /\ work_pc = "vote" => cpu_online_mask # {}
    /\ load >= 0

\* calculateLoad ran with core 0 the only core online
C10_Witness ==
    /\ work_pc = "act"
    /\ cpu_online_mask = {0}
    /\ load > 0

\* C13: the first tick that starts after cluster_plug_hotplug_resume has
\* restarted the suspended controller finds online_all set when it tests it
\* at line 348, so that it forces every core online.
C13_ResumeForcesOnline ==
    (work_pc = "s348" /\ force_req = "resume_run") => online_all

\* C14: the first tick that starts after active_store has toggled `active`
\* finds online_all set when it tests it at line 348, so that it forces
\* every core online.
C14_ToggleForcesOnline ==
    (work_pc = "s348" /\ force_req = "toggle_run") => online_all

\* a tick passes line 356-364 with the controller enabled and online_all
\* clear, and a tick's suspension action with no failing hardware call
DispatchStep == work_pc = "s356" /\ work_pc' # "s356" /\ active /\ ~online_all
SuspendStep == work_pc = "susp" /\ work_pc' = "lock"
CleanSuspendStep == SuspendStep /\ env_events' = env_events

\* C11 as stated: LCD_EVENT_OFF_END with both mode flags false changes no
\* core and no cluster flag, and the ticks after it go on running decision
\* cycles: with the screen off and both mode flags false an enabled tick
\* still takes the voting path.
C11_ScreenOffKeepsSampling ==
    [][/\ (lcd_notifier_callback("LCD_EVENT_OFF_END")
             /\ ~screen_off_power_mode /\ ~low_power_mode)
          => UNCHANGED << hw, big_cluster_enabled, little_cluster_enabled >>
       /\ (DispatchStep /\ ~screen_on /\ ~screen_off_power_mode
             /\ ~low_power_mode)
          => work_pc' = "vote"]_vars

\* C11: LCD_EVENT_OFF_END with both mode flags false changes no core and no
\* cluster flag itself, but with the screen off and screen_off_power_mode
\* false an enabled tick takes the suspension branch; it stays on the voting
\* path only when screen_off_power_mode is true and low_power_mode false.
C11_ScreenOffSuspendsUnlessPowerMode ==
    [][/\ (lcd_notifier_callback("LCD_EVENT_OFF_END")
             /\ ~screen_off_power_mode /\ ~low_power_mode)
          => UNCHANGED << hw, big_cluster_enabled, little_cluster_enabled >>
       /\ (DispatchStep /\ ~screen_on /\ ~screen_off_power_mode)
          => work_pc' = "susp"
       /\ (DispatchStep /\ ~screen_on /\ screen_off_power_mode
             /\ ~low_power_mode)
          => work_pc' = "vote"]_vars

\* a tick took the suspension branch with the screen off and both mode
\* flags false
C11_Witness ==
    /\ work_pc = "susp"
    /\ active
    /\ ~screen_on
    /\ ~screen_off_power_mode
    /\ ~low_power_mode

\* C12 as stated: with the screen off, screen_off_power_mode true and
\* max_cores_screenoff = 2 an enabled tick takes the suspension branch and
\* leaves no big core and exactly two little cores online.
C12_PowerModeCapsLittleCores ==
    [][/\ (DispatchStep /\ ~screen_on /\ screen_off_power_mode
             /\ max_cores_screenoff = 2)
          => work_pc' = "susp"
       /\ (CleanSuspendStep /\ ~screen_on /\ screen_off_power_mode
             /\ max_cores_screenoff = 2)
          => (OnlineBig' = {} /\ Cardinality(OnlineLittle') = 2)]_vars

\* C12: with the screen off, screen_off_power_mode false and
\* max_cores_screenoff = 2 an enabled tick takes the suspension branch; when
\* no hardware call fails it leaves exactly little cores 0 and 1 online and,
\* if big_cluster_enabled was set, no big core; it then sets
\* workqueue_suspended and does not queue the work again.
C12_ScreenOffCapsLittleCores ==
    [][/\ (DispatchStep /\ ~screen_on /\ ~screen_off_power_mode
             /\ max_cores_screenoff = 2)
          => work_pc' = "susp"
       /\ (CleanSuspendStep /\ ~screen_on /\ ~screen_off_power_mode
             /\ max_cores_screenoff = 2)
          => /\ OnlineLittle' = {0, 1}
             /\ big_cluster_enabled => OnlineBig' = {}
       /\ (work_pc = "lock" /\ work_pc' = "idle")
          => (workqueue_suspended' /\ work_pending' = work_pending)]_vars

\* the suspension action ran with the cap 2: cores 0 and 1 alone are online
C12_Witness ==
    /\ work_pc = "lock"
    /\ ~screen_on
    /\ ~screen_off_power_mode
    /\ max_cores_screenoff = 2
    /\ cpu_online_mask = {0, 1}

\* C15: a cpu device's `offline` flag changes only when the core's online
\* state changed with it: after a failed cpu_up / cpu_down the flag has the
\* value it had before the attempt.
C15_FailedSwitchKeepsFlag ==
    [][\A c \in Cores :
          /\ (c \in dev_offline' /\ c \notin dev_offline)
                => c \notin cpu_online_mask'
          /\ (c \notin dev_offline' /\ c \in dev_offline)
                => c \in cpu_online_mask']_vars

\* C16: no write leaves load_threshold_down >= load_threshold_up, a vote
\* threshold of 0 or max_cores_screenoff outside 1..4 in a parameter.
C16_InvalidWriteRejected ==
    /\ load_threshold_down < load_threshold_up
    /\ vote_threshold_up > 0
    /\ vote_threshold_down > 0
    /\ max_cores_screenoff \in 1 .. 4

\* C17: online_one_cpu with cores 1..6 all online calls no cpu_up, switches
\* no core and changes none of the controller's flags.
C17_AddCoreNoOpWhenAllOnline ==
    [][(ActStep /\ 1 .. 6 \subseteq cpu_online_mask
          /\ vote_decision([up |-> vote_up, down |-> vote_down],
                           vote_threshold_up, vote_threshold_down) = "AddCore")
          => UNCHANGED << hw, env_events, flags >>]_vars

\* an AddCore cycle found cores 1..6 online and core 7 offline, and left
\* core 7 offline
C17_Witness ==
    /\ work_pc = "s379"
    /\ last_action = "AddCore"
    /\ last_cpu = NoCpu
    /\ cpu_online_mask = 0 .. 6

\* C18: LCD_EVENT_OFF_START and LCD_EVENT_ON_END change nothing and queue no
\* work; screen_on changes only in the LCD_EVENT_OFF_END and
\* LCD_EVENT_ON_START handlers.
C18_OnlyOffEndAndOnStartAct ==
    [][/\ (lcd_notifier_callback("LCD_EVENT_OFF_START")
             \/ lcd_notifier_callback("LCD_EVENT_ON_END"))
          => UNCHANGED vars
       /\ screen_on' # screen_on
          => (lcd_notifier_callback("LCD_EVENT_OFF_END")
                \/ lcd_notifier_callback("LCD_EVENT_ON_START"))]_vars

\* the controller is enabled, suspended with the screen off and at rest:
\* LCD_EVENT_OFF_START or LCD_EVENT_ON_END arriving here wakes nothing
C18_Witness ==
    /\ active
    /\ workqueue_suspended
    /\ ~screen_on
    /\ work_pending = "none"
    /\ work_pc = "idle"
    /\ store_pc = "idle"

\* C19: an enabled tick that runs with online_all clear takes the suspension
\* branch exactly when (!screen_on && !screen_off_power_mode) ||
\* low_power_mode, and then sets workqueue_suspended without queueing the
\* work; otherwise it runs one decision cycle and queues the work again.
C19_BranchMatchesPolicy ==
    [][/\ DispatchStep
          => /\ work_pc' \in {"susp", "vote"}
             /\ work_pc' = "susp"
                   <=> ((~screen_on /\ ~screen_off_power_mode)
                           \/ low_power_mode)
       /\ (work_pc = "lock" /\ work_pc' # "lock")
          => (workqueue_suspended' /\ work_pc' = "idle"
                /\ work_pending' = work_pending)
       /\ (work_pc = "vote" /\ work_pc' # "vote") => work_pc' = "act"
       /\ (work_pc = "act" /\ work_pc' # "act") => work_pc' = "s379"
       /\ (work_pc = "s379" /\ work_pc' # "s379")
          => (work_pending' # "none" /\ cycles' = cycles)]_vars

\* a tick took the suspension branch on low_power_mode with the screen on
C19_Witness ==
    /\ work_pc = "susp"
    /\ active
    /\ screen_on
    /\ low_power_mode

\* every cpu device's `offline` flag agrees with the core's online state
HwConsistent == dev_offline = Cores \ cpu_online_mask

\* C20: the suspension action of a tick leaves no big core online, in
\* every history, those without any failed hardware call included.
C20_SuspensionDisablesBigCluster ==
    [][(CleanSuspendStep /\ HwConsistent) => OnlineBig' = {}]_vars

\* the little cores and the caps a write can leave in max_cores_screenoff
LittleCores == {c \in Cores : is_little_cpu(c)}
ScreenoffCaps == 0 .. (N_LITTLE_CPUS + 1)

\* C21: from every hardware state in which the tick is about to call it,
\* and for every screen state, screen_off_power_mode and cap,
\* enable_little_cluster without a failing
\* hardware call leaves online exactly the lowest max_cores_screenoff little
\* cores when the screen is off, screen_off_power_mode is false and the cap
\* is within 1..4, and all four little cores otherwise; it touches no big
\* core.
C21_LittleClusterSize ==
    work_pc = "susp" =>
    \A scr_on \in BOOLEAN, scr_off_mode \in BOOLEAN, cap \in ScreenoffCaps :
        LET h == enable_little_cluster(hw_now, scr_on, scr_off_mode, cap, {})
            n == IF ~scr_on /\ ~scr_off_mode /\ cap \in 1 .. N_LITTLE_CPUS
                 THEN cap ELSE N_LITTLE_CPUS
        IN  /\ h.on \cap LittleCores = 0 .. (n - 1)
            /\ Cardinality(h.on \cap LittleCores) = n
            /\ h.on \ LittleCores = cpu_online_mask \ LittleCores

\* a suspension action ran with the screen on, on low_power_mode, after a
\* decision cycle: all four little cores are online after it
C21_Witness ==
    /\ work_pc = "lock"
    /\ screen_on
    /\ low_power_mode
    /\ LittleCores \subseteq cpu_online_mask
    /\ dev_offline \cap LittleCores = {}
    /\ ~big_cluster_enabled
    /\ cycles > 0

\* C22: a store that clears low_power_mode or screen_off_power_mode while
\* the controller is suspended sets online_all, resets the vote counters
\* and queues the work.
C22_ClearingModeForcesOnline ==
    [][(StoreCommit /\ workqueue_suspended
          /\ \/ low_power_mode /\ ~low_power_mode'
             \/ screen_off_power_mode /\ ~screen_off_power_mode')
          => (online_all' /\ vote_up' = 0 /\ vote_down' = 0
                /\ work_pending' # "none")]_vars

\* C23: the vote counters are (0,0) after every store that changes active,
\* low_power_mode or screen_off_power_mode, after the suspension action of
\* a tick and after a resume of the suspended controller.
C23_ModeChangeResetsVotes ==
    [][(StoreCommit \/ SuspendStep
          \/ (lcd_notifier_callback("LCD_EVENT_ON_START")
                /\ active /\ workqueue_suspended))
          => (vote_up' = 0 /\ vote_down' = 0)]_vars

\* the steps of a tick at line 348-354, at line 356-364 and at line 382
OnlineAllStep == work_pc = "s348" /\ work_pc' = "s356"
BranchStep == work_pc = "s356" /\ work_pc' # "s356"
ReturnStep == work_pc = "s382" /\ work_pc' = "idle"

\* C25 as stated: a tick that finds online_all set brings every core online
\* when no hardware call fails, sets both cluster flags, skips the voting
\* and the suspension branch, queues the work again whether or not the
\* controller is active, and clears online_all.
C25_ForceOnlineAlwaysRequeues ==
    [][/\ (OnlineAllStep /\ online_all /\ env_events' = env_events)
          => /\ cpu_online_mask' = Cores
             /\ big_cluster_enabled' /\ little_cluster_enabled'
       /\ (BranchStep /\ online_all) => work_pc' = "s379"
       /\ ReturnStep => ~online_all']_vars

\* C25: a tick that finds online_all set brings every core online when no
\* hardware call fails, sets both cluster flags, skips the voting and the
\* suspension branch, queues the work again if the controller is active
\* and does not queue it if it is not, and clears online_all.
C25_ForceOnlineRequeuesIfActive ==
    [][/\ (OnlineAllStep /\ online_all /\ env_events' = env_events)
          => /\ cpu_online_mask' = Cores
             /\ big_cluster_enabled' /\ little_cluster_enabled'
       /\ (BranchStep /\ online_all)
          => /\ work_pc' = (IF active THEN "s379" ELSE "s382")
             /\ UNCHANGED << hw, votes, work_pending >>
       /\ (work_pc = "s379" /\ work_pc' # "s379")
          => (work_pc' = "s382" /\ work_pending' # "none")
       /\ ReturnStep => ~online_all']_vars

\* a tick of the disabled controller forced every core online and goes to
\* line 382 without queueing the work
C25_Witness ==
    /\ work_pc = "s382"
    /\ ~active
    /\ online_all
    /\ cpu_online_mask = Cores
    /\ big_cluster_enabled
    /\ work_pending = "none"
    /\ cycles > 0

\* C26: a tick that finds the controller not active at line 356 goes to
\* line 382 without a decision cycle, without the suspension action and
\* without queueing the work, and returns without queueing it; after
\* that, only the commit of a store queues the work of a controller that
\* is not active.
C26_DisabledTickDoesNotRequeue ==
    [][/\ (BranchStep /\ ~active)
          => /\ work_pc' = "s382"
             /\ UNCHANGED << hw, votes, work_pending, workqueue_suspended >>
       /\ ReturnStep => work_pending' = work_pending
       /\ (/\ ~active
           /\ work_pc \in {"s382", "idle"}
           /\ work_pending = "none"
           /\ work_pending' # "none") => StoreCommit]_vars

\* a tick of the disabled controller, with online_all clear, is at line 382
\* and no work is pending
C26_Witness ==
    /\ work_pc = "s382"
    /\ ~active
    /\ ~online_all
    /\ work_pending = "none"

\* the highest-numbered core of a non-empty set of cores
HighestCore(S) == CHOOSE c \in S : \A d \in S : d <= c
\* the decision the threshold check of the current state takes
Decision == vote_decision([up |-> vote_up, down |-> vote_down],
                          vote_threshold_up, vote_threshold_down)
\* the cores 1..6 that are offline, and those that are online
EligibleOffline == (1 .. 6) \ cpu_online_mask
EligibleOnline == (1 .. 6) \cap cpu_online_mask

\* C27: when no hardware call fails, an AddCore cycle switches on the
\* highest-numbered offline core of 1..6 and nothing else, a RemoveCore
\* cycle switches off the highest-numbered online core of 1..6 and nothing
\* else.
C27_ScanPicksHighestCore ==
    [][(ActStep /\ env_events' = env_events)
          => /\ (Decision = "AddCore" /\ EligibleOffline # {})
                => cpu_online_mask'
                     = cpu_online_mask \cup {HighestCore(EligibleOffline)}
             /\ (Decision = "RemoveCore" /\ EligibleOnline # {})
                => cpu_online_mask'
                     = cpu_online_mask \ {HighestCore(EligibleOnline)}]_vars

\* an AddCore cycle switched core 6 on and left core 5 offline
C27_Witness ==
    /\ work_pc = "s379"
    /\ last_action = "AddCore"
    /\ last_cpu = 6
    /\ 6 \in cpu_online_mask
    /\ 5 \notin cpu_online_mask

\* C28 as stated: an AddCore cycle switches a little core on only when no
\* big core of 1..6 is offline, and a RemoveCore cycle switches a big core
\* off only when no little core of 1..6 is online.
C28_RemoveFavorsLittle ==
    [][ActStep
          => /\ \A c \in cpu_online_mask' \ cpu_online_mask :
                  is_little_cpu(c) => {4, 5, 6} \subseteq cpu_online_mask
             /\ \A c \in cpu_online_mask \ cpu_online_mask' :
                  is_big_cpu(c) => EligibleOnline \cap LittleCores = {}]_vars

\* C28: an AddCore cycle switches a little core on only when no big core of
\* 1..6 is offline, and a RemoveCore cycle, which walks the same order,
\* switches a little core off only when no big core of 1..6 is online.
C28_BothScansFavorBig ==
    [][ActStep
          => /\ \A c \in cpu_online_mask' \ cpu_online_mask :
                  is_little_cpu(c) => {4, 5, 6} \subseteq cpu_online_mask
             /\ \A c \in cpu_online_mask \ cpu_online_mask' :
                  is_little_cpu(c) => {4, 5, 6} \cap cpu_online_mask = {}]_vars

\* a RemoveCore cycle switched big core 6 off with little cores 1..3 online
C28_Witness ==
    /\ work_pc = "s379"
    /\ last_action = "RemoveCore"
    /\ last_cpu = 6
    /\ 6 \notin cpu_online_mask
    /\ {1, 2, 3} \subseteq cpu_online_mask

\* C30: the worker holds no device lock when it is about to take
\* cluster_plug_mutex at line 370 (the only place where a context that
\* takes device locks takes the mutex), and none when it is outside the
\* work function.
C30_NoDeviceLockAtMutex ==
    work_pc \in {"lock", "idle"} => dev_locked = {}

\* the suspension action switched the big cores off, each under its device
\* lock, and the worker is about to take the mutex
C30_Witness ==
    /\ work_pc = "lock"
    /\ dev_locked = {}
    /\ OnlineBig = {}
    /\ {c \in Cores : is_big_cpu(c)} \subseteq dev_offline

\* the number of votes above which the action a fires
threshold_of(a) ==
    IF a = "AddCore" THEN vote_threshold_up ELSE vote_threshold_down

\* C29 as stated: a decision cycle whose switch fails makes one switch
\* attempt only, and the decision cycle right after it fires the same
\* action again if the load is still beyond the threshold.
C29_FailedSwitchRetriedNextTick ==
    [][ActStep
          => /\ env_events' <= env_events + 1
             /\ (failed_switch.action = "AddCore" /\ failed_switch.age = 0
                 /\ load > load_threshold_up)
                => last_action' = "AddCore"
             /\ (failed_switch.action = "RemoveCore" /\ failed_switch.age = 0
                 /\ load < load_threshold_down)
                => last_action' = "RemoveCore"]_vars

\* C29: a decision cycle makes at most one switch attempt, and when the
\* attempt fails no core changes in that cycle; the counters are reset by
\* the firing although the switch failed, so the same action does not fire
\* again before its vote threshold is passed anew (not in the next
\* threshold_of(action) cycles), and when it fires again on the unchanged
\* topology its scan picks the same cpu.
C29_FailedSwitchRetriedAfterNewVotes ==
    [][ActStep
          => /\ env_events' <= env_events + 1
             /\ env_events' # env_events
                => cpu_online_mask' = cpu_online_mask
             /\ Cardinality((cpu_online_mask' \ cpu_online_mask)
                            \cup (cpu_online_mask \ cpu_online_mask')) <= 1
             /\ (failed_switch.action # "None"
                 /\ failed_switch.age < threshold_of(failed_switch.action))
                => last_action' # failed_switch.action
             /\ (failed_switch.action # "None"
                 /\ last_action' = failed_switch.action)
                => last_cpu' = failed_switch.cpu]_vars

\* the cpu_up of an AddCore cycle failed on core 6, vote_threshold_up
\* cycles have run since without firing, and the cycle in progress is about
\* to fire AddCore again
C29_Witness ==
    /\ work_pc = "act"
    /\ failed_switch.action = "AddCore"
    /\ failed_switch.cpu = 6
    /\ failed_switch.age = vote_threshold_up
    /\ Decision = "AddCore"
    /\ 6 \notin cpu_online_mask

\* C24: the tick that serves a display OFF-complete event received while
\* the controller was enabled and suspended, with no store and no resume in
\* between, takes the suspension branch: at line 356 the controller is
\* active, online_all is clear and the mode test fails, so that the tick
\* runs enable_little_cluster and disable_big_cluster and returns with
\* workqueue_suspended set and without queueing the work.
C24_OffEndTickSuspendsAgain ==
    (work_pc = "s356" /\ off_req = "run")
        => /\ active
           /\ ~online_all
           /\ ~work_to_do(screen_on, screen_off_power_mode, low_power_mode)

\* the wall and idle deltas get_delta_cpu_load_and_update computes for
\* cpu c when it is called in the current state
WallDelta(c) == truncated_delta(cpu_time[c].wall, cp_info[c].prev_cpu_wall)
IdleDelta(c) == truncated_delta(cpu_time[c].idle, cp_info[c].prev_cpu_idle)

\* a call of calculateLoad in SpecLoad: a step that leaves the kernel's
\* counters as they are
CallStep == cpu_time' = cpu_time

\* C31: for the counters of every call, get_delta_cpu_load_and_update
\* returns a value in 0..100, and 100 when the truncated wall delta is 0 or
\* the truncated idle delta exceeds it, with 100 * (wall - idle) taken
\* modulo 2^32; when the wall delta is below 2^16 and at least the idle
\* delta the value is the exact percentage; the call stores the counters
\* it read as the previous ones.
C31_SampleWithinPercent ==
    [][CallStep
         => \A c \in Cores :
              /\ cpu_load'[c] \in 0 .. 100
              /\ (WallDelta(c) = u32_zero
                  \/ u32_lt(WallDelta(c), IdleDelta(c)))
                 => cpu_load'[c] = 100
              /\ (WallDelta(c) # u32_zero /\ WallDelta(c).hi = 0
                  /\ ~u32_lt(WallDelta(c), IdleDelta(c)))
                 => cpu_load'[c]
                      = (100 * (WallDelta(c).lo - IdleDelta(c).lo))
                        \div WallDelta(c).lo
              /\ cp_info'[c].prev_cpu_wall = cpu_time[c].wall
              /\ cp_info'[c].prev_cpu_idle = cpu_time[c].idle]_vars

\* cpu 0 was sampled with a wall delta of 656 * 2^16 or more and no idle
\* time: 100 * (wall - idle) wrapped modulo 2^32 and the value returned
\* is 0
C31_Witness ==
    /\ cp_info[0].prev_cpu_wall = [top |-> 0, hi |-> 656, lo |-> 0]
    /\ cp_info[0].prev_cpu_idle = u64_zero
    /\ cpu_load[0] = 0

\* C32: a call of calculateLoad stores the counters of every possible cpu,
\* online or not, and returns the sum of the values returned for the
\* online cpus divided by their number, rounded down: the cpus of a
\* cluster return the same value here, so the sum is the number of online
\* big cpus times the value of cpu 4 plus the number of online little cpus
\* times the value of cpu 0; the result is in 0..100.
C32_LoadIsOnlineAverage ==
    [][CallStep
         => /\ \A c \in Cores :
                 cp_info'[c] = [prev_cpu_wall |-> cpu_time[c].wall,
                                prev_cpu_idle |-> cpu_time[c].idle]
            /\ load' = (Cardinality(OnlineBig) * cpu_load'[4]
                        + Cardinality(OnlineLittle) * cpu_load'[0])
                       \div Cardinality(cpu_online_mask)
            /\ load' \in 0 .. 100]_vars

\* the big cluster is offline and its cpus returned 100, the little
\* cluster returned 25: the load is 25, and the counters of offline cpu 7
\* were stored
C32_Witness ==
    /\ cpu_online_mask = {0, 1, 2, 3}
    /\ cpu_load[7] = 100
    /\ cpu_load[0] = 25
    /\ load = 25
    /\ cp_info[7].prev_cpu_wall = [top |-> 0, hi |-> 0, lo |-> 200]

\* the controller is at rest: no tick is pending or executing
AtRest == work_pending = "none" /\ work_pc = "idle"

\* C33: whenever the controller is active, workqueue_suspended is set and
\* no tick is pending or executing, low_power_mode is set or the screen is
\* off with screen_off_power_mode clear.
C33_SuspendedOnlyInSuspendingMode ==
    (active /\ workqueue_suspended /\ AtRest)
        => (low_power_mode \/ (~screen_on /\ ~screen_off_power_mode))

\* C34: whenever the controller is active and workqueue_suspended is clear,
\* a tick is pending or executing.
C34_TickLoopAlive ==
    (active /\ ~workqueue_suspended) => ~AtRest

\* the controller is active and sampling: the work waits on its timer and
\* no tick is executing
C34_Witness ==
    /\ active
    /\ ~workqueue_suspended
    /\ work_pending = "timer"
    /\ work_pc = "idle"
    /\ store_pc = "idle"
    /\ cycles > 0

\* C35: whenever workqueue_suspended is set, the work is not pending.
C35_SuspendedHasNoPendingTick ==
    workqueue_suspended => work_pending = "none"

\* C36: while the controller is not active, every LCD event leaves screen_on,
\* workqueue_suspended, online_all and the vote counters as they are and
\* queues no work.
C36_DisabledIgnoresLcd ==
    [][\A event \in LcdEvents :
          (~active /\ lcd_notifier_callback(event))
             => UNCHANGED << screen_on, workqueue_suspended, online_all,
                             votes, work_pending >>]_vars

\* the controller was disabled with the screen off and is at rest: an
\* LCD_EVENT_ON_START arriving here leaves screen_on clear
C36_Witness ==
    /\ ~active
    /\ ~screen_on
    /\ AtRest
    /\ store_pc = "idle"
    /\ ~online_all

\* neither counter exceeds its vote threshold
VotesWithinThresholds ==
    /\ vote_up <= vote_threshold_up
    /\ vote_down <= vote_threshold_down

CoresAdded == cpu_online_mask' \ cpu_online_mask
CoresRemoved == cpu_online_mask \ cpu_online_mask'

\* C38: the threshold check of a decision cycle changes the online state of
\* at most one core: an AddCore cycle takes no core offline, a RemoveCore
\* cycle brings no core online, and a cycle that fires neither leaves the
\* online mask as it is; the load comparison of the cycle changes no core.
C38_CycleSwitchesAtMostOneCore ==
    [][/\ VoteStep => cpu_online_mask' = cpu_online_mask
       /\ ActStep
            => /\ Cardinality(CoresAdded \cup CoresRemoved) <= 1
               /\ CoresAdded = {} \/ CoresRemoved = {}
               /\ last_action' = "AddCore" => CoresRemoved = {}
               /\ last_action' = "RemoveCore" => CoresAdded = {}
               /\ last_action' = "None"
                    => cpu_online_mask' = cpu_online_mask]_vars

\* an AddCore cycle has brought its core online while other cores of the
\* scan range are still offline
C38_Witness ==
    /\ work_pc = "s379"
    /\ last_action = "AddCore"
    /\ last_cpu \in cpu_online_mask
    /\ \E c \in scan_last .. scan_first : c \notin cpu_online_mask

\* C39: whenever no tick is executing, big_cluster_enabled = false implies
\* that no big core is online.
C39_BigFlagClearMeansBigOffline ==
    (work_pc = "idle" /\ ~big_cluster_enabled) => OnlineBig = {}

=============================================================================
